---- MODULE Spec2Model ----
(***************************************************************************)
(* Model of the pygame obstacle game: the scene graph of game_engine.py    *)
(* (GameObject / RectObject / GameEngine / GameEnvironment) and the domain *)
(* layer of main.py (PlayerObject, PipesManager, EndScreenManager).        *)
(*                                                                         *)
(* Units.  Time is counted in ticks of 1/TicksPerSecond s.  Positions are  *)
(* counted in 1/PosScale px (PosScale = TicksPerSecond^2) and velocities   *)
(* in 1/TicksPerSecond px/s, so that  v += 800*dt, y += v*dt  and          *)
(* x -= 150*dt  are exact integer operations.  Widths, heights and rect    *)
(* coordinates are whole pixels, as pygame.Rect keeps them.                *)
(***************************************************************************)
EXTENDS Integers, Sequences, FiniteSets, TLC

\* ---------------------------------------------------------------- bounds
TicksPerSecond == 4
MaxFrames == 5
\* frames of a round that stays active, for the fixed-dt specification
LiveFrames == 40

PosScale == TicksPerSecond * TicksPerSecond
Px(n) == n * PosScale

\* frame deltas returned by clock.tick (in ticks): a short frame, a frame of
\* one second and a stall of about four and a half seconds
DtSet == {1, TicksPerSecond, (9 * TicksPerSecond) \div 2}

\* ------------------------------------------------------ program constants
width == 800
height == 600
PlayerSpawnX == 100
PlayerSpawnY == 100
PlayerSize == 50
JumpVelocity == 300
Gravity == 800
InitPipeSpeed == 150
InitSpawnInterval == 2
InitGapHeight == 150
InitPipeWidth == 80
HeightMargin == 50
RestartX == 100
RestartY == 100

\* values random.randint(50, height - gap_height - 50) is sampled at
TopHeights(gap) == {HeightMargin, height - gap - HeightMargin}

VARIABLES
    pc,         \* position of the frame loop
    running,    \* GameEngine.running
    dt,         \* frame delta of the current frame (ticks)
    frame,      \* number of frames started
    esm,        \* EndScreenManager: is_game_over
    enabled,    \* GameObject.enabled of the controller, manager, actor, sprite
    pm,         \* PipesManager object
    pl,         \* PlayerObject (with its sprite child)
    next_id,    \* identity of the next PipeObject pair to be constructed
    key_r,      \* keys[K_r] as of the controller's update in this frame
    key_space,  \* keys[K_SPACE] as of the actor's last update
    updated,    \* nodes whose update() ran in this frame, in order
    drawn,      \* nodes whose draw() ran in this frame, in order
    events,     \* what the last PipesManager.update did, in order
    hist,       \* per pair id: how often it was scored, whether it was culled
    restarted,  \* the controller's update took the restart branch this frame
    lose_calls, \* calls of on_lose in this frame
    gap         \* result of the last next_pipe_pos call (player draw)

vars == <<pc, running, dt, frame, esm, enabled, pm, pl, next_id, key_r,
          key_space, updated, drawn, events, hist, restarted, lose_calls, gap>>

\* ------------------------------------------------------------ node names
EsmRef == <<0, "esm">>
PmRef == <<0, "pm">>
PlayerRef == <<0, "player">>
SpriteRef == <<0, "sprite">>
TopRef(id) == <<id, "top">>
BottomRef(id) == <<id, "bottom">>

\* children of the controller, in add_child order (main.py 305, 309)
EsmChildren == <<PmRef, PlayerRef>>

None == [x |-> -1, y |-> -1, none |-> TRUE]

\* ----------------------------------------------------------- sequences
RECURSIVE IndexOf(_, _, _)
IndexOf(s, e, i) ==
    IF i > Len(s) THEN 0
    ELSE IF s[i] = e THEN i
    ELSE IndexOf(s, e, i + 1)

RemoveAt(s, k) == SubSeq(s, 1, k - 1) \o SubSeq(s, k + 1, Len(s))

\* list.remove(e) inside try/except ValueError: drop the first occurrence
ListRemove(s, e) ==
    LET k == IndexOf(s, e, 1)
    IN  IF k = 0 THEN s ELSE RemoveAt(s, k)

Range(s) == {s[i] : i \in 1..Len(s)}

\* int() of a coordinate given in 1/PosScale px, as pygame.Rect stores it
Trunc(n) == IF n >= 0 THEN n \div PosScale ELSE -((-n) \div PosScale)

\* ------------------------------------------------- GameObject (scene graph)
\* GameObject.__init__: a node without explicit position sits at (0, 0)
Origin == [x |-> 0, y |-> 0]

\* get_abs_pos: the parent's absolute position plus the local position
GetAbsPos(parent_abs, local) ==
    [x |-> parent_abs.x + local.x, y |-> parent_abs.y + local.y]

RootAbs == Origin
EsmAbs == GetAbsPos(RootAbs, Origin)
PmAbs == GetAbsPos(EsmAbs, Origin)

\* a traversal that forgets the enabled test
UpdateGateAlways(node_enabled) == TRUE

\* update_all: the node's update and its children's update_all run iff enabled
UpdateGate(node_enabled) == node_enabled

\* draw_all: the node's draw and its children's draw_all always run
DrawGate(node_enabled) == TRUE

\* a loop that stops after the first child
SetEnableFirstChild(en, children, flag) ==
    [r \in DOMAIN en |-> IF children # <<>> /\ r = children[1] THEN flag ELSE en[r]]

\* set_enable_children: the flag is written to every direct child
SetEnableChildren(en, children, flag) ==
    [r \in DOMAIN en |-> IF r \in Range(children) THEN flag ELSE en[r]]

\* RectObject.update: rect.topleft = get_abs_pos()
RectAt(abs) == [x |-> Trunc(abs.x), y |-> Trunc(abs.y)]

\* pygame.Rect.colliderect on whole-pixel rects
CollideRect(a, aw, ah, b, bw, bh) ==
    /\ a.x < b.x + bw
    /\ a.y < b.y + bh
    /\ a.x + aw > b.x
    /\ a.y + ah > b.y

\* ------------------------------------------------------------ PipeObject
\* PipeObject.__init__ (through SpriteObject / RectObject / GameObject):
\* constructed without parent, so the rect is at the local position
PipeObject(x, y, w, h, img) ==
    [x |-> x, y |-> y, width |-> w, height |-> h,
     rect |-> RectAt(GetAbsPos(Origin, [x |-> x, y |-> y])),
     passed_score |-> FALSE, enabled |-> TRUE, image |-> img,
     parent_obj |-> <<0, "None">>]

\* ---------------------------------------------------------- PipesManager
\* PipesManager.__init__ (spawn_interval in ticks)
PipesManagerInit(x_pos_score, image) ==
    [x_pos_score |-> x_pos_score, score |-> 0, pipes |-> <<>>,
     children |-> <<>>, pipe_image |-> image, pipe_speed |-> InitPipeSpeed,
     spawn_timer |-> 0, spawn_interval |-> InitSpawnInterval * TicksPerSecond,
     gap_height |-> InitGapHeight, pipe_width |-> InitPipeWidth]

\* add_child, for the child: the back-reference is set
Adopted(child, parent) == [child EXCEPT !.parent_obj = parent]

\* add_child, for the parent: the child is appended to the child sequence
AddChild(children, ref) == Append(children, ref)

\* a spawn whose lower barrier forgets the gap
SpawnPipeNoGap(m, top_height, id) ==
    LET bottom_height == height - top_height
        x_spawn == Px(width)
        timg == IF m.pipe_image = "None" THEN "None" ELSE "flipped"
        top_pipe == PipeObject(x_spawn, 0, m.pipe_width, top_height, timg)
        bottom_pipe == PipeObject(x_spawn, Px(top_height + m.gap_height),
                                  m.pipe_width, bottom_height, m.pipe_image)
    IN  [m EXCEPT !.pipes = Append(@, [id |-> id,
                                       top |-> Adopted(top_pipe, PmRef),
                                       bottom |-> Adopted(bottom_pipe, PmRef)]),
                  !.children = AddChild(AddChild(@, TopRef(id)), BottomRef(id))]

\* a spawn that puts the new pair at the head of the pair list
SpawnPipeFront(m, top_height, id) ==
    LET bottom_height == height - top_height - m.gap_height
        x_spawn == Px(width)
        timg == IF m.pipe_image = "None" THEN "None" ELSE "flipped"
        top_pipe == PipeObject(x_spawn, 0, m.pipe_width, top_height, timg)
        bottom_pipe == PipeObject(x_spawn, Px(top_height + m.gap_height),
                                  m.pipe_width, bottom_height, m.pipe_image)
    IN  [m EXCEPT !.pipes = <<[id |-> id,
                               top |-> Adopted(top_pipe, PmRef),
                               bottom |-> Adopted(bottom_pipe, PmRef)]>> \o @,
                  !.children = AddChild(AddChild(@, TopRef(id)), BottomRef(id))]

\* spawn_pipe with random.randint's result top_height; id names the new pair
SpawnPipe(m, top_height, id) ==
    LET bottom_height == height - top_height - m.gap_height
        x_spawn == Px(width)
        timg == IF m.pipe_image = "None" THEN "None" ELSE "flipped"
        top_pipe == PipeObject(x_spawn, 0, m.pipe_width, top_height, timg)
        bottom_pipe == PipeObject(x_spawn, Px(top_height + m.gap_height),
                                  m.pipe_width, bottom_height, m.pipe_image)
    IN  [m EXCEPT !.pipes = Append(@, [id |-> id,
                                       top |-> Adopted(top_pipe, PmRef),
                                       bottom |-> Adopted(bottom_pipe, PmRef)]),
                  !.children = AddChild(AddChild(@, TopRef(id)), BottomRef(id))]

\* a timer that restarts from zero when it fires
TimerStepZero(timer, interval, d) ==
    IF timer + d >= interval
    THEN [timer |-> 0, fire |-> TRUE]
    ELSE [timer |-> timer + d, fire |-> FALSE]

\* a timer that fires and keeps everything it accumulated
TimerStepNoWrap(timer, interval, d) ==
    [timer |-> timer + d, fire |-> timer + d >= interval]

\* lines 90-93: the spawn timer; fire tells whether spawn_pipe is called
TimerStep(timer, interval, d) ==
    IF timer + d >= interval
    THEN [timer |-> timer + d - interval, fire |-> TRUE]
    ELSE [timer |-> timer + d, fire |-> FALSE]

\* position in the live pair list of the pair object named id (0: absent)
RECURSIVE PairIndex(_, _, _)
PairIndex(ps, id, i) ==
    IF i > Len(ps) THEN 0
    ELSE IF ps[i].id = id THEN i
    ELSE PairIndex(ps, id, i + 1)

\* lines 99-104: both barriers move left and their rects follow
MovePair(p, dx) ==
    LET tx == p.top.x - dx
        bx == p.bottom.x - dx
    IN  [p EXCEPT !.top.x = tx,
                  !.top.rect = RectAt(GetAbsPos(PmAbs, [x |-> tx, y |-> p.top.y])),
                  !.bottom.x = bx,
                  !.bottom.rect = RectAt(GetAbsPos(PmAbs, [x |-> bx, y |-> p.bottom.y]))]

\* a scoring condition that forgets the passed_score flag
ScoreCondNoFlag(p, x_pos_score) ==
    p.top.x + Px(p.top.width) < Px(x_pos_score)

\* line 107: the scoring condition
ScoreCond(p, x_pos_score) ==
    /\ ~p.top.passed_score
    /\ p.top.x + Px(p.top.width) < Px(x_pos_score)

\* a cull test that never holds
CullCondNever(p) == FALSE

\* line 113: the pair is completely off-screen
CullCond(p) == p.top.x + Px(p.top.width) < 0

\* a cull that leaves the lower barrier in the child sequence
CullPairTopOnly(m, id) ==
    [m EXCEPT !.children = ListRemove(@, TopRef(id)),
              !.pipes = LET k == PairIndex(@, id, 1)
                        IN IF k = 0 THEN @ ELSE RemoveAt(@, k)]

\* lines 115-126: remove both barriers from children and the pair from pipes
CullPair(m, id) ==
    [m EXCEPT !.children = ListRemove(ListRemove(@, TopRef(id)), BottomRef(id)),
              !.pipes = LET k == PairIndex(@, id, 1)
                        IN IF k = 0 THEN @ ELSE RemoveAt(@, k)]

\* the sequence the for statement of line 96 iterates: a copy (self.pipes[:])
LoopItems(ps) == [i \in 1..Len(ps) |-> ps[i].id]

\* a loop body that culls before it looks at the scoring line
LoopBodyCullFirst(st, id, d) ==
    LET m == st.m
        k == PairIndex(m.pipes, id, 1)
        p1 == MovePair(m.pipes[k], m.pipe_speed * d * TicksPerSecond)
        cu == CullCond(p1)
        sc == ~cu /\ ScoreCond(p1, m.x_pos_score)
        p2 == IF sc THEN [p1 EXCEPT !.top.passed_score = TRUE] ELSE p1
        m2 == [m EXCEPT !.pipes[k] = p2,
                        !.score = IF sc THEN @ + 1 ELSE @]
        m3 == IF cu THEN CullPair(m2, id) ELSE m2
        lg == st.log \o <<[op |-> "move", id |-> id]>>
                     \o (IF sc THEN <<[op |-> "score", id |-> id]>> ELSE <<>>)
                     \o (IF cu THEN <<[op |-> "cull", id |-> id]>> ELSE <<>>)
    IN  [m |-> m3, log |-> lg]

\* one iteration of the loop body (lines 97-126) for the pair object id
LoopBody(st, id, d) ==
    LET m == st.m
        k == PairIndex(m.pipes, id, 1)
        p0 == m.pipes[k]
        p1 == MovePair(p0, m.pipe_speed * d * TicksPerSecond)
        sc == ScoreCond(p1, m.x_pos_score)
        p2 == IF sc THEN [p1 EXCEPT !.top.passed_score = TRUE] ELSE p1
        m2 == [m EXCEPT !.pipes[k] = p2,
                        !.score = IF sc THEN @ + 1 ELSE @]
        cu == CullCond(p2)
        m3 == IF cu THEN CullPair(m2, id) ELSE m2
        lg == st.log \o <<[op |-> "move", id |-> id]>>
                     \o (IF sc THEN <<[op |-> "score", id |-> id]>> ELSE <<>>)
                     \o (IF cu THEN <<[op |-> "cull", id |-> id]>> ELSE <<>>)
    IN  [m |-> m3, log |-> lg]

\* a loop over the live list (for pair in self.pipes) while pairs are removed
RECURSIVE PairLoopLive(_, _, _, _)
PairLoopLive(st, items, i, d) ==
    IF i > Len(st.m.pipes) THEN st
    ELSE PairLoopLive(LoopBody(st, st.m.pipes[i].id, d), items, i + 1, d)

\* the for loop of line 96 over the copied list
RECURSIVE PairLoop(_, _, _, _)
PairLoop(st, items, i, d) ==
    IF i > Len(items) THEN st
    ELSE PairLoop(LoopBody(st, items[i], d), items, i + 1, d)

\* PipesManager.update(dt); top_height is drawn only when a pair is spawned
PmUpdate(m, d, top_height, id) ==
    LET ts == TimerStep(m.spawn_timer, m.spawn_interval, d)
        m1 == [m EXCEPT !.spawn_timer = ts.timer]
        m2 == IF ts.fire THEN SpawnPipe(m1, top_height, id) ELSE m1
        lg == IF ts.fire THEN <<[op |-> "spawn", id |-> id]>> ELSE <<>>
    IN  PairLoop([m |-> m2, log |-> lg], LoopItems(m2.pipes), 1, d)

\* a reset that runs the constructor again
ResetAsInit(m) == PipesManagerInit(m.x_pos_score, "None")

\* PipesManager.reset
Reset(m) ==
    LET RECURSIVE Drop(_, _)
        Drop(ch, i) ==
            IF i > Len(m.pipes) THEN ch
            ELSE Drop(ListRemove(ListRemove(ch, TopRef(m.pipes[i].id)),
                                 BottomRef(m.pipes[i].id)), i + 1)
    IN  [m EXCEPT !.children = Drop(@, 1),
                  !.pipes = <<>>,
                  !.spawn_timer = 0,
                  !.score = 0]

\* centre x and centre y of the gap of pair p (units of 1/PosScale px)
GapOf(m, p) ==
    [x |-> p.top.x + Px(p.top.width) \div 2,
     y |-> Px(p.top.height) + Px(m.gap_height) \div 2, none |-> FALSE]

\* a search that compares the barrier's left edge, not its centre
RECURSIVE FirstAheadLeftEdge(_, _, _)
FirstAheadLeftEdge(m, effective_x, i) ==
    IF i > Len(m.pipes) THEN 0
    ELSE IF m.pipes[i].top.x >= effective_x THEN i
    ELSE FirstAheadLeftEdge(m, effective_x, i + 1)

\* next_pipe_pos(x_player_pos, offset): the loop of lines 221-229
RECURSIVE FirstAhead(_, _, _)
FirstAhead(m, effective_x, i) ==
    IF i > Len(m.pipes) THEN 0
    ELSE IF m.pipes[i].top.x + Px(m.pipes[i].top.width) \div 2 >= effective_x
         THEN i
    ELSE FirstAhead(m, effective_x, i + 1)

NextPipePos(m, x_player_pos, offset) ==
    IF m.pipes = <<>> THEN None
    ELSE LET k == FirstAhead(m, x_player_pos - offset, 1)
         IN  IF k # 0 THEN GapOf(m, m.pipes[k])
             ELSE GapOf(m, m.pipes[Len(m.pipes)])

\* the barriers in the child sequence run RectObject.update (update_all of
\* the manager's children); barriers whose pair is gone are left alone
ChildrenUpdate(m) ==
    [m EXCEPT !.pipes = [i \in 1..Len(m.pipes) |->
        LET p == m.pipes[i]
            t == IF TopRef(p.id) \in Range(m.children) /\ UpdateGate(p.top.enabled)
                 THEN [p.top EXCEPT !.rect = RectAt(GetAbsPos(PmAbs,
                                        [x |-> p.top.x, y |-> p.top.y]))]
                 ELSE p.top
            b == IF BottomRef(p.id) \in Range(m.children) /\ UpdateGate(p.bottom.enabled)
                 THEN [p.bottom EXCEPT !.rect = RectAt(GetAbsPos(PmAbs,
                                        [x |-> p.bottom.x, y |-> p.bottom.y]))]
                 ELSE p.bottom
        IN  [p EXCEPT !.top = t, !.bottom = b]]]

\* ---------------------------------------------------------- PlayerObject
\* PlayerObject.__init__: a RectObject with a SpriteObject child at (0, 0)
PlayerInit(x, y, w, h) ==
    [x |-> x, y |-> y, width |-> w, height |-> h, velocity_y |-> 0,
     rect |-> RectAt(GetAbsPos(Origin, [x |-> x, y |-> y])),
     sprite |-> [x |-> 0, y |-> 0, width |-> w, height |-> h,
                 rect |-> RectAt(GetAbsPos(Origin, Origin))]]

\* lines 41-45: the flat list of barrier rects, top then bottom of each pair
PipeRects(m) ==
    [i \in 1..(2 * Len(m.pipes)) |->
        LET p == m.pipes[(i + 1) \div 2]
            b == IF i % 2 = 1 THEN p.top ELSE p.bottom
        IN  [rect |-> b.rect, width |-> b.width, height |-> b.height]]

\* collide_list: index (from 0) of the first colliding rect, -1 if none
RECURSIVE CollideList(_, _, _)
CollideList(p, rects, i) ==
    IF i > Len(rects) THEN -1
    ELSE IF CollideRect(p.rect, p.width, p.height,
                        rects[i].rect, rects[i].width, rects[i].height)
         THEN i - 1
    ELSE CollideList(p, rects, i + 1)

\* a clamp that keeps the velocity
PlayerMoveKeepVelocity(p, space, d) ==
    LET r == RectAt(GetAbsPos(EsmAbs, [x |-> p.x, y |-> p.y]))
        v0 == IF space THEN -(JumpVelocity * TicksPerSecond) ELSE p.velocity_y
        v1 == v0 + Gravity * d
        ground_level == Px(height - p.sprite.height)
        new_pos == p.y + v1 * d
    IN  IF new_pos > ground_level
        THEN [p EXCEPT !.rect = r, !.velocity_y = v1, !.y = ground_level]
        ELSE IF new_pos < 0
        THEN [p EXCEPT !.rect = r, !.velocity_y = v1, !.y = 0]
        ELSE [p EXCEPT !.rect = r, !.velocity_y = v1, !.y = new_pos]

\* lines 21-35: rect sync, jump key, gravity, integration and clamping
PlayerMove(p, space, d) ==
    LET r == RectAt(GetAbsPos(EsmAbs, [x |-> p.x, y |-> p.y]))
        v0 == IF space THEN -(JumpVelocity * TicksPerSecond) ELSE p.velocity_y
        v1 == v0 + Gravity * d
        ground_level == Px(height - p.sprite.height)
        new_pos == p.y + v1 * d
    IN  IF new_pos > ground_level
        THEN [p EXCEPT !.rect = r, !.velocity_y = 0, !.y = ground_level]
        ELSE IF new_pos < 0
        THEN [p EXCEPT !.rect = r, !.velocity_y = 0, !.y = 0]
        ELSE [p EXCEPT !.rect = r, !.velocity_y = v1, !.y = new_pos]

\* lines 47-48: whether on_lose is called
PlayerHit(p, m) == CollideList(p, PipeRects(m), 1) # -1

\* update_all of the actor's child: the sprite's RectObject.update
SpriteUpdate(p) ==
    [p EXCEPT !.sprite.rect =
        RectAt(GetAbsPos(GetAbsPos(EsmAbs, [x |-> p.x, y |-> p.y]),
                         [x |-> p.sprite.x, y |-> p.sprite.y]))]

\* ------------------------------------------------------ EndScreenManager
\* a game-over that sets the flag and leaves the children enabled
ShowGameOverNoFreeze(e, en) ==
    [esm |-> [e EXCEPT !.is_game_over = TRUE],
     enabled |-> en]

\* show_game_over
ShowGameOver(e, en) ==
    [esm |-> [e EXCEPT !.is_game_over = TRUE],
     enabled |-> SetEnableChildren(en, EsmChildren, FALSE)]

\* a restart test that forgets the game-over flag
RestartCondAnyState(e, r) == r

\* the branch EndScreenManager.update takes
RestartCond(e, r) == e.is_game_over /\ r

\* a restart that leaves the actor where it stopped
RestartKeepPos(e, en, p, m) ==
    [esm |-> [e EXCEPT !.is_game_over = FALSE],
     enabled |-> SetEnableChildren(en, EsmChildren, TRUE),
     pl |-> [p EXCEPT !.velocity_y = 0],
     pm |-> Reset(m)]

\* a restart that leaves the barriers on the field
RestartNoReset(e, en, p, m) ==
    [esm |-> [e EXCEPT !.is_game_over = FALSE],
     enabled |-> SetEnableChildren(en, EsmChildren, TRUE),
     pl |-> [p EXCEPT !.x = Px(RestartX), !.y = Px(RestartY), !.velocity_y = 0],
     pm |-> m]

\* lines 269-279: the restart branch
Restart(e, en, p, m) ==
    [esm |-> [e EXCEPT !.is_game_over = FALSE],
     enabled |-> SetEnableChildren(en, EsmChildren, TRUE),
     pl |-> [p EXCEPT !.x = Px(RestartX), !.y = Px(RestartY), !.velocity_y = 0],
     pm |-> Reset(m)]

\* ------------------------------------------------------------- history
\* per pair: times scored, how it left the list, whether the order
\* spawned -> scored -> culled was respected
NewHist == [scored |-> 0, end |-> "live", ordered |-> TRUE, counted |-> TRUE]

ApplyEvent(h, ev) ==
    IF ev.op = "spawn" THEN Append(h, NewHist)
    ELSE IF ev.op = "score"
    THEN [h EXCEPT ![ev.id].scored = @ + 1,
                   ![ev.id].ordered = @ /\ h[ev.id].end = "live"]
    ELSE IF ev.op = "cull"
    THEN [h EXCEPT ![ev.id].end = "culled",
                   ![ev.id].ordered = @ /\ h[ev.id].scored >= 1]
    ELSE h

RECURSIVE ApplyEvents(_, _, _)
ApplyEvents(h, evs, i) ==
    IF i > Len(evs) THEN h
    ELSE ApplyEvents(ApplyEvent(h, evs[i]), evs, i + 1)

\* reset: the live pairs are dropped, score starts again from 0
MarkReset(h, m) ==
    [i \in 1..Len(h) |->
        IF PairIndex(m.pipes, i, 1) # 0
        THEN [h[i] EXCEPT !.end = "reset", !.counted = FALSE]
        ELSE [h[i] EXCEPT !.counted = FALSE]]

\* --------------------------------------------------------------- Init
Init ==
    /\ pc = "poll"
    /\ running = TRUE
    /\ dt = 0
    /\ frame = 0
    /\ esm = [is_game_over |-> FALSE]
    /\ enabled = [r \in {EsmRef, PmRef, PlayerRef, SpriteRef} |-> TRUE]
    /\ \E img \in {"None", "image"} : pm = PipesManagerInit(PlayerSpawnX, img)
    /\ pl = PlayerInit(Px(PlayerSpawnX), Px(PlayerSpawnY), PlayerSize, PlayerSize)
    /\ next_id = 1
    /\ key_r = FALSE
    /\ key_space = FALSE
    /\ updated = <<>>
    /\ drawn = <<>>
    /\ events = <<>>
    /\ hist = <<>>
    /\ restarted = FALSE
    /\ lose_calls = 0
    /\ gap = None

\* ------------------------------------------------------------- actions
\* handle_quit: a QUIT event or an escape keydown clears running
HandleQuit(run, quit) == IF quit THEN FALSE ELSE run

\* a loop that looks at running only after polling
WhileTestIgnored(run) == "poll"

\* run, line 238: the while test decides between another iteration and the end
WhileTest(run) == IF run THEN "poll" ELSE "done"

\* run, lines 238-240: handle_quit polls the events, clock.tick gives dt
Poll ==
    /\ pc = "poll"
    /\ running
    /\ frame < MaxFrames
    /\ \E quit \in BOOLEAN, d \in DtSet :
        /\ running' = HandleQuit(running, quit)
        /\ dt' = d
    /\ frame' = frame + 1
    /\ pc' = "update_esm"
    /\ updated' = <<>>
    /\ drawn' = <<>>
    /\ events' = <<>>
    /\ restarted' = FALSE
    /\ lose_calls' = 0
    /\ UNCHANGED <<esm, enabled, pm, pl, next_id, key_r, key_space, hist, gap>>

\* GameEngine.update -> EndScreenManager.update_all: the controller's update
EsmUpdate ==
    /\ pc = "update_esm"
    /\ \E r \in BOOLEAN :
        /\ key_r' = r
        /\ IF UpdateGate(enabled[EsmRef]) /\ RestartCond(esm, r)
           THEN LET n == Restart(esm, enabled, pl, pm)
                IN  /\ esm' = n.esm
                    /\ enabled' = n.enabled
                    /\ pl' = n.pl
                    /\ pm' = n.pm
                    /\ hist' = MarkReset(hist, pm)
                    /\ restarted' = TRUE
           ELSE UNCHANGED <<esm, enabled, pl, pm, hist, restarted>>
    /\ updated' = IF UpdateGate(enabled[EsmRef]) THEN Append(updated, EsmRef)
                  ELSE updated
    /\ pc' = IF UpdateGate(enabled[EsmRef]) THEN "update_pm" ELSE "draw"
    /\ UNCHANGED <<running, dt, frame, next_id, key_space, drawn, events,
                   lose_calls, gap>>

\* update_all of the controller's first child: PipesManager.update, then
\* update_all of every barrier in its child sequence
PmUpdateAll ==
    /\ pc = "update_pm"
    /\ IF UpdateGate(enabled[PmRef])
       THEN \E h \in IF TimerStep(pm.spawn_timer, pm.spawn_interval, dt).fire
                     THEN TopHeights(pm.gap_height) ELSE {0} :
              LET st == PmUpdate(pm, dt, h, next_id)
              IN  /\ pm' = ChildrenUpdate(st.m)
                  /\ events' = st.log
                  /\ hist' = ApplyEvents(hist, st.log, 1)
                  /\ next_id' = Len(hist') + 1
                  /\ updated' = updated \o <<PmRef>> \o st.m.children
       ELSE UNCHANGED <<pm, events, hist, next_id, updated>>
    /\ pc' = "update_player"
    /\ UNCHANGED <<running, dt, frame, esm, enabled, pl, key_r, key_space, drawn,
                   restarted, lose_calls, gap>>

\* update_all of the controller's second child: PlayerObject.update, then
\* update_all of its sprite
PlayerUpdateAll ==
    /\ pc = "update_player"
    /\ IF UpdateGate(enabled[PlayerRef])
       THEN \E space \in BOOLEAN :
              LET p1 == PlayerMove(pl, space, dt)
                  hit == PlayerHit(p1, pm)
                  go == ShowGameOver(esm, enabled)
              IN  /\ key_space' = space
                  /\ esm' = IF hit THEN go.esm ELSE esm
                  /\ enabled' = IF hit THEN go.enabled ELSE enabled
                  /\ lose_calls' = IF hit THEN lose_calls + 1 ELSE lose_calls
                  /\ pl' = IF UpdateGate(enabled[SpriteRef]) THEN SpriteUpdate(p1)
                           ELSE p1
                  /\ updated' = updated \o <<PlayerRef>> \o
                        (IF UpdateGate(enabled[SpriteRef]) THEN <<SpriteRef>>
                         ELSE <<>>)
       ELSE UNCHANGED <<key_space, esm, enabled, lose_calls, pl, updated>>
    /\ pc' = "draw"
    /\ UNCHANGED <<running, dt, frame, pm, next_id, key_r, drawn, events, hist,
                   restarted, gap>>

\* the nodes draw_all visits below the root, in order
DrawOrder(m) ==
    (IF DrawGate(enabled[EsmRef]) THEN <<EsmRef>> ELSE <<>>)
    \o (IF DrawGate(enabled[PmRef]) THEN <<PmRef>> \o m.children ELSE <<>>)
    \o (IF DrawGate(enabled[PlayerRef])
        THEN <<PlayerRef>> \o (IF DrawGate(enabled[SpriteRef])
                               THEN <<SpriteRef>> ELSE <<>>)
        ELSE <<>>)

\* step, line 234: GameEnvironment.draw -> draw_all from the root; the
\* actor's draw queries next_pipe_pos(self.x); then the loop test of run
Draw ==
    /\ pc = "draw"
    /\ drawn' = DrawOrder(pm)
    /\ gap' = IF DrawGate(enabled[PlayerRef]) THEN NextPipePos(pm, pl.x, 0)
              ELSE gap
    /\ pc' = WhileTest(running)
    /\ UNCHANGED <<running, dt, frame, esm, enabled, pm, pl, next_id, key_r,
                   key_space, updated, events, hist, restarted, lose_calls>>

Next == Poll \/ EsmUpdate \/ PmUpdateAll \/ PlayerUpdateAll \/ Draw

Spec == Init /\ [][Next]_vars

\* ------------------------------------ an active round with a fixed dt
\* the state after construction, with the dt every frame will have
InitFixed ==
    /\ pc = "poll"
    /\ running = TRUE
    /\ dt \in DtSet
    /\ frame = 0
    /\ esm = [is_game_over |-> FALSE]
    /\ enabled = [r \in {EsmRef, PmRef, PlayerRef, SpriteRef} |-> TRUE]
    /\ \E img \in {"None", "image"} : pm = PipesManagerInit(PlayerSpawnX, img)
    /\ pl = PlayerInit(Px(PlayerSpawnX), Px(PlayerSpawnY), PlayerSize, PlayerSize)
    /\ next_id = 1
    /\ key_r = FALSE
    /\ key_space = FALSE
    /\ updated = <<>>
    /\ drawn = <<>>
    /\ events = <<>>
    /\ hist = <<>>
    /\ restarted = FALSE
    /\ lose_calls = 0
    /\ gap = None

\* one frame of a round that stays active: the controller's update does
\* nothing, the manager and its barriers update with the fixed dt, the actor
\* reports no loss
FixedFrame ==
    /\ pc = "poll"
    /\ running
    /\ frame < LiveFrames
    /\ ~esm.is_game_over
    /\ UpdateGate(enabled[EsmRef]) /\ UpdateGate(enabled[PmRef])
    /\ \E h \in IF TimerStep(pm.spawn_timer, pm.spawn_interval, dt).fire
                 THEN TopHeights(pm.gap_height) ELSE {0} :
          LET st == PmUpdate(pm, dt, h, next_id)
          IN  /\ pm' = ChildrenUpdate(st.m)
              /\ events' = st.log
              /\ hist' = ApplyEvents(hist, st.log, 1)
              /\ next_id' = Len(hist') + 1
              /\ updated' = <<EsmRef, PmRef>> \o st.m.children
    /\ frame' = frame + 1
    /\ UNCHANGED <<pc, running, dt, esm, enabled, pl, key_r, key_space, drawn,
                   restarted, lose_calls, gap>>

\* the loop of run starts its next iteration: the only step there is while
\* running is true and the round is active (every FixedFrame step is one)
FrameArrives ==
    /\ pc = "poll"
    /\ running
    /\ frame < LiveFrames
    /\ ~esm.is_game_over
    /\ frame' = frame + 1

\* frames keep arriving: the loop of run goes on while running is true
SpecFixed == InitFixed /\ [][FixedFrame]_vars /\ WF_frame(FrameArrives)

\* ---------------------------------------------------------- observers
CountOp(evs, op, id) ==
    Cardinality({i \in 1..Len(evs) : evs[i].op = op /\ evs[i].id = id})

Spawned(evs) == {i \in 1..Len(evs) : evs[i].op = "spawn"}

RightEdge(p) == p.top.x + Px(p.top.width)

PairIds(m) == {m.pipes[i].id : i \in 1..Len(m.pipes)}

PairOf(m, id) == m.pipes[PairIndex(m.pipes, id, 1)]

\* the step in which PipesManager.update runs
PmUpdateRuns == pc = "update_pm" /\ enabled[PmRef]

\* a frame boundary: no frame is in progress
FrameBoundary == pc \in {"poll", "done"}

\* ------------------------------------------------------------- claims

\* C1: an update_all call on a node whose enabled flag is false runs neither
\* the node's update nor the update of any descendant (nothing is logged as
\* updated and the subtree's state is unchanged), while draw_all still draws
\* the node and every descendant whatever the enabled flags are.
C1_EnableGating ==
    [][ /\ (pc = "update_pm" /\ ~enabled[PmRef])
            => (updated' = updated /\ pm' = pm /\ events' = events)
        /\ (pc = "update_player" /\ ~enabled[PlayerRef])
            => (updated' = updated /\ pl' = pl /\ lose_calls' = lose_calls)
        /\ pc = "draw"
            => drawn' = <<EsmRef, PmRef>> \o pm.children \o <<PlayerRef, SpriteRef>>
      ]_vars

\* a frame spent frozen with live barriers: only the controller updated,
\* the whole tree drawn
C1_Witness ==
    /\ FrameBoundary
    /\ ~enabled[PmRef] /\ ~enabled[PlayerRef]
    /\ pm.pipes # <<>>
    /\ updated = <<EsmRef>>
    /\ drawn = <<EsmRef, PmRef>> \o pm.children \o <<PlayerRef, SpriteRef>>

\* C2: between two resets each pair adds exactly 1 to score, in the first
\* update in which its upper barrier's right edge is below x_pos_score, and
\* nothing in later updates: a live pair has been scored once iff its right
\* edge is below x_pos_score, no pair is ever scored twice, and score is the
\* sum of these contributions since the last reset.
RECURSIVE SumScored(_, _)
SumScored(h, i) ==
    IF i > Len(h) THEN 0
    ELSE (IF h[i].counted THEN h[i].scored ELSE 0) + SumScored(h, i + 1)

C2_ScoreOnce ==
    /\ \A i \in 1..Len(hist) : hist[i].scored <= 1
    /\ \A i \in 1..Len(pm.pipes) :
        LET p == pm.pipes[i]
        IN  hist[p.id].scored = IF RightEdge(p) < Px(pm.x_pos_score) THEN 1 ELSE 0
    /\ pm.score = SumScored(hist, 1)

\* a pair scored in an earlier update went through a further update, still
\* past the scoring line, without being scored again
C2_Witness ==
    \E i \in 1..Len(pm.pipes) :
        /\ CountOp(events, "move", pm.pipes[i].id) = 1
        /\ CountOp(events, "score", pm.pipes[i].id) = 0
        /\ hist[pm.pipes[i].id].scored = 1
        /\ RightEdge(pm.pipes[i]) < Px(pm.x_pos_score)
        /\ pm.score = 1

\* the pairs live at the start of the pair loop: the old list, then the pair
\* spawned by this call
LoopStartIds(m, evs) ==
    LoopItems(m.pipes) \o [i \in 1..Cardinality(Spawned(evs)) |-> evs[i].id]

\* x of the pair id at the start of the loop (a new pair starts at width)
StartX(m, id) ==
    IF id \in PairIds(m) THEN PairOf(m, id).top.x ELSE Px(width)

\* C3: one PipesManager.update moves every pair that is live at the start of
\* the pair loop left by pipe_speed*dt exactly once; afterwards exactly the
\* pairs whose right edge is < 0 are gone from the pair list and the child
\* sequence, and the others remain in their original order.
C3_CullingSafety ==
    [][ PmUpdateRuns =>
        LET ids == LoopStartIds(pm, events')
            dx == pm.pipe_speed * dt * TicksPerSecond
            Off(id) == StartX(pm, id) - dx + Px(pm.pipe_width) < 0
            Keep(id) == ~Off(id)
            kept == SelectSeq(ids, Keep)
        IN  /\ \A k \in 1..Len(ids) : CountOp(events', "move", ids[k]) = 1
            /\ Len(events') = Len(ids) + Cardinality(Spawned(events'))
                    + Cardinality({k \in 1..Len(events') :
                                     events'[k].op \in {"score", "cull"}})
            /\ LoopItems(pm'.pipes) = kept
            /\ \A k \in 1..Len(pm'.pipes) :
                /\ pm'.pipes[k].top.x = StartX(pm, pm'.pipes[k].id) - dx
                /\ pm'.pipes[k].bottom.x = StartX(pm, pm'.pipes[k].id) - dx
            /\ pm'.children = [k \in 1..(2 * Len(kept)) |->
                    IF k % 2 = 1 THEN TopRef(kept[(k + 1) \div 2])
                    ELSE BottomRef(kept[(k + 1) \div 2])]
      ]_vars

\* an update culled the front pair while a pair behind it stayed and moved
C3_Witness ==
    /\ pc = "update_player"
    /\ \E k \in 1..Len(events) : events[k].op = "cull"
    /\ \E k \in 1..Len(events) :
        /\ events[k].op = "move"
        /\ events[k].id \in PairIds(pm)
        /\ \E j \in 1..(k - 1) : events[j].op = "cull"

\* C4: an update in which spawn_timer + dt reaches spawn_interval spawns
\* exactly one pair and leaves spawn_timer = old timer + dt - spawn_interval;
\* an update in which it stays below spawns none and leaves old timer + dt.
C4_SpawnPhase ==
    [][ PmUpdateRuns =>
        IF pm.spawn_timer + dt >= pm.spawn_interval
        THEN /\ Cardinality(Spawned(events')) = 1
             /\ next_id' = next_id + 1
             /\ pm'.spawn_timer = pm.spawn_timer + dt - pm.spawn_interval
        ELSE /\ Spawned(events') = {}
             /\ next_id' = next_id
             /\ pm'.spawn_timer = pm.spawn_timer + dt
      ]_vars

\* an update spawned a pair and kept a remainder in the timer
C4_Witness ==
    /\ pc = "update_player"
    /\ Spawned(events) # {}
    /\ pm.spawn_timer > 0
    /\ pm.spawn_timer < pm.spawn_interval

\* the restart branch was taken by the controller's update that just returned
RestartReturned == pc = "update_pm" /\ restarted

AllChildren(flag) == \A k \in 1..Len(EsmChildren) : enabled[EsmChildren[k]] = flag

\* C5: when the controller's update that performs the restart transition
\* returns, the actor is at (100, 100) with velocity 0, the manager has no
\* pairs, no barrier children, score 0 and spawn_timer 0, every direct child
\* of the controller is enabled and is_game_over is false.
C5_RestartReset ==
    RestartReturned =>
        /\ pl.x = Px(PlayerSpawnX) /\ pl.y = Px(PlayerSpawnY) /\ pl.velocity_y = 0
        /\ pm.pipes = <<>> /\ pm.children = <<>>
        /\ pm.score = 0 /\ pm.spawn_timer = 0
        /\ AllChildren(TRUE)
        /\ ~esm.is_game_over

\* a restart that had pairs to drop and a score to clear
C5_Witness ==
    /\ RestartReturned
    /\ key_r
    /\ \E i \in 1..Len(hist) : hist[i].end = "reset"
    /\ \E i \in 1..Len(hist) : hist[i].scored = 1

\* C6: the controller starts Active; Active -> GameOver happens only in the
\* actor's update, through one call of the loss callback on a collision;
\* GameOver -> Active happens only in the controller's update with the
\* restart key held; the restart key held while Active changes nothing.
C6_RoundStateMachine ==
    /\ [](frame = 0 => ~esm.is_game_over)
    /\ [][ /\ (~esm.is_game_over /\ esm'.is_game_over)
               => /\ pc = "update_player"
                  /\ lose_calls' = lose_calls + 1
                  /\ \E space \in BOOLEAN : PlayerHit(PlayerMove(pl, space, dt), pm)
           /\ (esm.is_game_over /\ ~esm'.is_game_over)
               => (pc = "update_esm" /\ key_r')
           /\ (pc = "update_esm" /\ ~esm.is_game_over)
               => UNCHANGED <<esm, enabled, pl, pm, hist, restarted>>
         ]_vars

\* the restart key was held in the update of an Active round with live pairs
\* and a moved actor, and nothing was reset
C6_Witness ==
    /\ pc = "update_pm"
    /\ key_r /\ ~restarted /\ ~esm.is_game_over
    /\ pm.pipes # <<>>
    /\ pl.y # Px(PlayerSpawnY)
    /\ pm.spawn_timer > 0

\* C7: at every frame boundary is_game_over is false iff every direct child
\* of the controller is enabled, and true iff every direct child is disabled.
C7_FrozenFlag ==
    FrameBoundary =>
        /\ ~esm.is_game_over <=> AllChildren(TRUE)
        /\ esm.is_game_over <=> AllChildren(FALSE)

\* a frame ended frozen, and a later frame ended active again after a restart
C7_WitnessFrozen == FrameBoundary /\ esm.is_game_over /\ AllChildren(FALSE)

C7_Witness ==
    /\ FrameBoundary /\ restarted
    /\ ~esm.is_game_over /\ AllChildren(TRUE)

\* C8: every pair goes spawned -> scored -> culled in that order: a pair is
\* culled only if it was scored in the same or an earlier update, and no pair
\* is scored after it was culled.
C8_PairLifecycle ==
    \A i \in 1..Len(hist) :
        /\ hist[i].ordered
        /\ hist[i].end = "culled" => hist[i].scored = 1
        /\ hist[i].end = "culled" => i \notin PairIds(pm)
        /\ hist[i].end = "live" <=> i \in PairIds(pm)

\* one pair was scored and culled by the same update, another was scored in
\* one update and culled by a later one
C8_WitnessSameUpdate ==
    \E i \in 1..Len(hist) :
        /\ hist[i].end = "culled"
        /\ CountOp(events, "score", i) = 1
        /\ CountOp(events, "cull", i) = 1

C8_Witness ==
    \E i \in 1..Len(hist) :
        /\ hist[i].end = "culled"
        /\ CountOp(events, "score", i) = 0
        /\ CountOp(events, "cull", i) = 1

\* centre x of the i-th pair, as next_pipe_pos computes it
CenterX(m, i) == m.pipes[i].top.x + Px(m.pipes[i].top.width) \div 2

\* what the documentation of next_pipe_pos promises
ExpectedGap(m, x, off) ==
    IF Len(m.pipes) = 0 THEN None
    ELSE LET ahead == {i \in 1..Len(m.pipes) : CenterX(m, i) >= x - off}
             k == IF ahead = {} THEN Len(m.pipes)
                  ELSE CHOOSE i \in ahead : \A j \in ahead : i <= j
         IN  [x |-> CenterX(m, k),
              y |-> Px(m.pipes[k].top.height) + Px(m.gap_height) \div 2,
              none |-> FALSE]

\* player positions and offsets the query is tried at: the actor's x, the
\* centres of the live pairs and the points next to them, the right border
QueryXs(m) ==
    {Px(PlayerSpawnX), Px(width) + Px(width)}
    \cup {CenterX(m, i) : i \in 1..Len(m.pipes)}
    \cup {CenterX(m, i) + 1 : i \in 1..Len(m.pipes)}
QueryOffsets == {0, Px(InitPipeWidth) \div 2}

FormerBarriers(m) ==
    {TopRef(id) : id \in PairIds(m)} \cup {BottomRef(id) : id \in PairIds(m)}

C10_ResetFrame ==
    [][ (pc = "update_esm" /\ restarted')
        => LET NotBarrier(r) == r \notin FormerBarriers(pm)
           IN  /\ pm'.pipes = <<>>
               /\ FormerBarriers(pm) \cap Range(pm'.children) = {}
               /\ pm'.children = SelectSeq(pm.children, NotBarrier)
               /\ pm'.spawn_timer = 0
               /\ pm'.score = 0
               /\ pm'.spawn_interval = pm.spawn_interval
               /\ pm'.gap_height = pm.gap_height
               /\ pm'.pipe_width = pm.pipe_width
               /\ pm'.pipe_speed = pm.pipe_speed
               /\ pm'.x_pos_score = pm.x_pos_score
               /\ pm'.pipe_image = pm.pipe_image
               /\ DOMAIN pm' = DOMAIN pm
      ]_vars

\* a reset of a manager that had a shared image, pairs, a score and a
\* running timer
C10_Witness ==
    /\ RestartReturned
    /\ pm.pipe_image = "image"
    /\ \E i \in 1..Len(hist) : hist[i].end = "reset"
    /\ \E i \in 1..Len(hist) : hist[i].scored = 1
    /\ pm.pipes = <<>> /\ pm.score = 0

\* C11: every live pair satisfies top.height + gap_height + bottom.height =
\* field height, 50 <= top.height <= field height - gap_height - 50, and the
\* lower barrier's y is top.height + gap_height (the upper barrier's is 0).
C11_PairGeometry ==
    \A i \in 1..Len(pm.pipes) :
        LET p == pm.pipes[i]
        IN  /\ p.top.height + pm.gap_height + p.bottom.height = height
            /\ HeightMargin <= p.top.height
            /\ p.top.height <= height - pm.gap_height - HeightMargin
            /\ p.bottom.y = Px(p.top.height + pm.gap_height)
            /\ p.top.y = 0
            /\ p.bottom.y + Px(p.bottom.height) = Px(height)

\* two live pairs that have moved, one with the smallest and one with the
\* largest upper barrier
C11_Witness ==
    /\ \E i \in 1..Len(pm.pipes) :
        /\ pm.pipes[i].top.height = HeightMargin
        /\ pm.pipes[i].top.x < Px(width)
    /\ \E i \in 1..Len(pm.pipes) :
        pm.pipes[i].top.height = height - pm.gap_height - HeightMargin

\* the step in which PlayerObject.update runs
PlayerUpdateRuns == pc = "update_player" /\ enabled[PlayerRef]

\* the position PlayerObject.update integrates to before clamping, for the
\* jump key it read
Integrated(p, space, d) ==
    LET v0 == IF space THEN -(JumpVelocity * TicksPerSecond) ELSE p.velocity_y
    IN  p.y + (v0 + Gravity * d) * d

\* C12: after every PlayerObject.update, whatever dt and the jump key,
\* 0 <= y <= field height - height; and when the integrated position was
\* outside that range (it was clamped), velocity_y is 0 afterwards.
C12_ActorClamping ==
    [][ PlayerUpdateRuns =>
        LET np == Integrated(pl, key_space', dt)
            low == Px(height - pl.height)
        IN  /\ 0 <= pl'.y /\ pl'.y <= low
            /\ np > low => (pl'.y = low /\ pl'.velocity_y = 0)
            /\ np < 0 => (pl'.y = 0 /\ pl'.velocity_y = 0)
            /\ (0 <= np /\ np <= low) => pl'.y = np
      ]_vars

\* the actor, rising with the jump key held, was clamped at the top
C12_Witness ==
    /\ pc = "draw"
    /\ PlayerRef \in Range(updated)
    /\ key_space
    /\ dt = 1
    /\ pl.y = 0
    /\ pl.velocity_y = 0

\* the actor, falling, was clamped at the ground
C12_WitnessGround ==
    /\ pc = "draw"
    /\ PlayerRef \in Range(updated)
    /\ pl.y = Px(height - pl.height)
    /\ pl.velocity_y = 0

UpdatePcs == {"update_esm", "update_pm", "update_player"}

\* C13: the loop starts another iteration after every frame in which no quit
\* or escape event was polled; once handle_quit has cleared running, the
\* update of the whole tree and then the draw of that iteration still run,
\* and the loop ends after the draw without starting another iteration.
C13_LoopCancellation ==
    /\ [](pc = "poll" => running)
    /\ [](pc \in UpdatePcs => drawn = <<>>)
    /\ [](pc = "done" => (~running /\ updated # <<>> /\ drawn # <<>>))
    /\ [][ /\ (pc = "draw" /\ running) => pc' = "poll"
           /\ (pc = "draw" /\ ~running) => pc' = "done"
           /\ pc' = "done" => pc = "draw"
           /\ pc = "poll" => pc' = "update_esm"
           /\ pc = "update_esm" => pc' = "update_pm"
           /\ pc = "update_pm" => pc' = "update_player"
           /\ pc = "update_player" => pc' = "draw"
           /\ pc = "draw" => (drawn' # <<>> /\ updated' = updated)
         ]_vars

\* a quit was polled in a later frame of an active round; that frame updated
\* the manager and the actor, drew the tree, and the loop ended
C13_Witness ==
    /\ pc = "done"
    /\ frame >= 2
    /\ ~running
    /\ PmRef \in Range(updated) /\ PlayerRef \in Range(updated)
    /\ PlayerRef \in Range(drawn)

\* the whole tree below the root, as draw_all visits it
FullDraw(m) == <<EsmRef, PmRef>> \o m.children \o <<PlayerRef, SpriteRef>>

\* C14: in a frame that starts in GameOver and in which the restart key is
\* not held, the engine update changes nothing of the actor (x, y,
\* velocity_y) or of the manager (every pair's x, the pair list, the child
\* sequence, score, spawn_timer) and does not call the loss callback; the
\* frame's draw pass still draws the controller, the manager, every live
\* barrier and the actor.
C14_FrozenSimulation ==
    [][ /\ (pc = "update_esm" /\ esm.is_game_over /\ ~key_r')
            => (pm' = pm /\ pl' = pl /\ lose_calls' = lose_calls
                /\ esm'.is_game_over)
        /\ (pc \in {"update_pm", "update_player"} /\ esm.is_game_over)
            => (pm' = pm /\ pl' = pl /\ lose_calls' = lose_calls
                /\ events' = events /\ updated' = updated
                /\ esm'.is_game_over)
        /\ (pc = "draw" /\ esm.is_game_over)
            => (drawn' = FullDraw(pm) /\ pm' = pm /\ pl' = pl)
      ]_vars

\* a second frozen frame in a row ended: the restart key was not held, no
\* loss was reported, the pairs stand still, everything was drawn
C14_Witness ==
    /\ FrameBoundary
    /\ esm.is_game_over
    /\ ~key_r
    /\ lose_calls = 0
    /\ events = <<>>
    /\ Len(pm.pipes) >= 1
    /\ pm.spawn_timer > 0
    /\ pl.y # Px(PlayerSpawnY)
    /\ drawn = FullDraw(pm)
    /\ Len(drawn) = 4 + 2 * Len(pm.pipes)

\* the bounding box the actor would have at its current position
BoxAtPosition(p) == RectAt(GetAbsPos(EsmAbs, [x |-> p.x, y |-> p.y]))

\* C15: when PlayerObject.update has tested for collision, the box it tested
\* (the actor's rect, which nothing touches after the test) has its top-left
\* at the actor's absolute position after this frame's integration and
\* clamping, in whole pixels.
C15_BoxPostIntegration ==
    (pc = "draw" /\ PlayerRef \in Range(updated)) => pl.rect = BoxAtPosition(pl)

\* C15, second half: a loss is reported in the very update in which the box
\* at the actor's new position overlaps a barrier rect.
C15_LossSameFrame ==
    [][ PlayerUpdateRuns =>
        LET synced == [pl' EXCEPT !.rect = BoxAtPosition(pl')]
        IN  PlayerHit(synced, pm) => lose_calls' = lose_calls + 1
      ]_vars

\* C16, as stated: after every PipesManager.update(dt), for any dt >= 0,
\* 0 <= spawn_timer < spawn_interval.
C16_TimerBelowInterval ==
    0 <= pm.spawn_timer /\ pm.spawn_timer < pm.spawn_interval

\* C16, amended: spawn_timer is never negative; an update subtracts
\* spawn_interval at most once, so spawn_timer ends below spawn_interval
\* exactly when old timer + dt < 2 * spawn_interval (in particular when the
\* timer was below the interval and dt <= spawn_interval), and a longer dt
\* leaves it at or above spawn_interval into the next frame.
C16_TimerBound ==
    /\ [](pm.spawn_timer >= 0)
    /\ [][ PmUpdateRuns =>
           /\ (pm.spawn_timer + dt < 2 * pm.spawn_interval)
               <=> (pm'.spawn_timer < pm.spawn_interval)
           /\ (pm.spawn_timer < pm.spawn_interval /\ dt <= pm.spawn_interval)
               => (0 <= pm'.spawn_timer /\ pm'.spawn_timer < pm.spawn_interval)
           /\ pm'.spawn_timer >= pm.spawn_timer + dt - pm.spawn_interval
         ]_vars

\* a later update, with dt no longer than the interval, fired and wrapped the
\* timer back below the interval
C16_Witness ==
    /\ pc = "update_player"
    /\ frame >= 2
    /\ dt <= pm.spawn_interval
    /\ Spawned(events) # {}
    /\ 0 <= pm.spawn_timer /\ pm.spawn_timer < pm.spawn_interval
    /\ Len(pm.pipes) >= 2

\* an update with a long dt fired once and left the timer above the interval
C16_WitnessStall ==
    /\ pc = "update_player"
    /\ Cardinality(Spawned(events)) = 1
    /\ pm.spawn_timer >= pm.spawn_interval

\* times the node ref occurs in the child sequence
Occurrences(children, ref) ==
    Cardinality({k \in 1..Len(children) : children[k] = ref})

\* C17: at every frame boundary the manager's child sequence holds exactly
\* the upper and the lower barrier of every pair of the pair list, each once,
\* and nothing else; each of these barriers has the manager as parent; the
\* number of children is twice the number of pairs.
C17_ListsConsistent ==
    FrameBoundary =>
        /\ Range(pm.children) = FormerBarriers(pm)
        /\ Len(pm.children) = 2 * Len(pm.pipes)
        /\ \A i \in 1..Len(pm.pipes) :
            /\ Occurrences(pm.children, TopRef(pm.pipes[i].id)) = 1
            /\ Occurrences(pm.children, BottomRef(pm.pipes[i].id)) = 1
            /\ pm.pipes[i].top.parent_obj = PmRef
            /\ pm.pipes[i].bottom.parent_obj = PmRef
        /\ \A i, j \in 1..Len(pm.pipes) : pm.pipes[i].id = pm.pipes[j].id => i = j

\* a frame ended with two live pairs after spawns, a cull and a reset
C17_Witness ==
    /\ FrameBoundary
    /\ Len(pm.pipes) >= 2
    /\ \E i \in 1..Len(hist) : hist[i].end = "culled"
    /\ \E i \in 1..Len(hist) : hist[i].end = "reset"

\* a frame ended with two live pairs after a cull
C17_WitnessCull ==
    /\ FrameBoundary
    /\ Len(pm.pipes) >= 2
    /\ \E i \in 1..Len(hist) : hist[i].end = "culled"

\* whether sequence a is what is left of b after dropping some of its head
IsSuffix(a, b) ==
    /\ Len(a) <= Len(b)
    /\ \A k \in 1..Len(a) : a[k] = b[Len(b) - Len(a) + k]

\* C18: the pairs of the pair list are in strictly increasing x order, oldest
\* and leftmost first; both barriers of a pair have the same x; an update
\* removes pairs only from the front of the list; so the pair next_pipe_pos
\* picks (the first in list order with centre >= player_x - offset) is the
\* nearest such pair.
C18_OrderedByX ==
    /\ [](\A i, j \in 1..Len(pm.pipes) :
            i < j => /\ pm.pipes[i].top.x < pm.pipes[j].top.x
                     /\ pm.pipes[i].id < pm.pipes[j].id)
    /\ [](\A i \in 1..Len(pm.pipes) : pm.pipes[i].top.x = pm.pipes[i].bottom.x)
    /\ [](\A x \in QueryXs(pm), off \in QueryOffsets :
            \A j \in 1..Len(pm.pipes) :
                CenterX(pm, j) >= x - off
                    => /\ NextPipePos(pm, x, off).x >= x - off
                       /\ NextPipePos(pm, x, off).x <= CenterX(pm, j))
    /\ [][ PmUpdateRuns =>
           IsSuffix(LoopItems(pm'.pipes), LoopStartIds(pm, events')) ]_vars

\* an update culled the front pair and left two younger pairs in x order; the
\* draw then found the nearest pair ahead of the actor
C18_Witness ==
    /\ FrameBoundary
    /\ \E k \in 1..Len(events) : events[k].op = "cull"
    /\ Len(pm.pipes) >= 2
    /\ pm.pipes[1].id > 1
    /\ pm.pipes[1].top.x < pm.pipes[2].top.x
    /\ gap = GapOf(pm, pm.pipes[1])

\* the frame's restart has fired and the actor's update has run
AfterRestartFrame == restarted /\ pc \in {"draw", "poll", "done"}

\* C19: with dt < spawn_interval, in a frame in which the restart fires the
\* manager's update spawns nothing, so the actor's update of the same frame
\* tests a box at the spawn position against an empty barrier list and does
\* not call the loss callback; the frame ends with is_game_over false and
\* every child of the controller enabled.
C19_NoImmediateReloss ==
    /\ (restarted /\ dt < pm.spawn_interval /\ pc = "update_player")
        => (pm.pipes = <<>> /\ PipeRects(pm) = <<>> /\ enabled[PlayerRef])
    /\ (AfterRestartFrame /\ dt < pm.spawn_interval)
        => /\ PlayerRef \in Range(updated)
           /\ pl.rect = [x |-> RestartX, y |-> RestartY]
           /\ pm.pipes = <<>>
           /\ lose_calls = 0
           /\ ~esm.is_game_over
           /\ AllChildren(TRUE)

\* a restart frame with a short dt ended: pairs of the lost round were
\* dropped, the actor fell from the spawn position, the round is active
C19_Witness ==
    /\ FrameBoundary /\ restarted
    /\ dt < pm.spawn_interval
    /\ key_r
    /\ \E i \in 1..Len(hist) : hist[i].end = "reset"
    /\ PlayerRef \in Range(updated)
    /\ pl.y > Px(RestartY)
    /\ lose_calls = 0
    /\ ~esm.is_game_over

\* a restart frame with dt >= spawn_interval can end in GameOver again
C19_WitnessLongFrame ==
    /\ FrameBoundary /\ restarted
    /\ dt >= pm.spawn_interval
    /\ lose_calls = 1
    /\ esm.is_game_over

\* updates a pair takes from its spawn to its cull with frame delta d: the
\* right edge starts at width + pipe_width and must fall below 0
CullWindow(d) ==
    (Px(width + InitPipeWidth) \div (InitPipeSpeed * d * TicksPerSecond)) + 1

\* least number of frames between two spawns with frame delta d
SpawnEvery(d) ==
    IF d >= InitSpawnInterval * TicksPerSecond THEN 1
    ELSE (InitSpawnInterval * TicksPerSecond) \div d

\* most pairs that can be live together with frame delta d
LiveBound(d) == ((CullWindow(d) - 1) \div SpawnEvery(d)) + 1

\* the pair id is gone from the pair list and the child sequence after it
\* was scored
ScoredAndCulled(id) ==
    /\ id <= Len(hist)
    /\ hist[id].scored = 1 /\ hist[id].end = "culled" /\ hist[id].ordered
    /\ id \notin PairIds(pm)
    /\ TopRef(id) \notin Range(pm.children)
    /\ BottomRef(id) \notin Range(pm.children)

\* C20: while the round stays active and frames keep arriving with a fixed
\* dt > 0, every spawned pair (with enough frames of the run left for its way
\* across the field) is eventually scored and then removed from the pair list
\* and the child sequence, and the number of live pairs stays bounded.
C20_EventualCulling ==
    /\ \A id \in 1..LiveFrames :
        (id \in PairIds(pm) /\ frame + CullWindow(dt) <= LiveFrames)
            ~> ScoredAndCulled(id)
    /\ [](Len(pm.pipes) <= LiveBound(dt))
    /\ [](Len(pm.children) <= 2 * LiveBound(dt))

\* with the shortest dt the run went on spawning after the first pair had
\* been scored and culled, with as many pairs live as the bound allows
C20_Witness ==
    /\ dt = 1
    /\ ScoredAndCulled(1)
    /\ Len(hist) >= 4
    /\ Len(pm.pipes) = LiveBound(dt)

====
